---- MODULE Spec2Model ----
(***************************************************************************)
(* Model of the asynchronous execution bridge of media.sheppsu.me:         *)
(*   - server-db/src/lib.rs: the catalog store (Database), the command     *)
(*     actor and the async facade (DatabaseAsyncWrapper), the one-shot     *)
(*     completion handle (DatabaseCommandFuture);                          *)
(*   - server/src/main.rs: the chunked file stream (FileStream) and the    *)
(*     part of the query handler that builds it.                           *)
(* Spec is the catalog side, StreamSpec the file stream side.              *)
(***************************************************************************)
EXTENDS Integers, Sequences, FiniteSets, TLC

VARIABLES
    table,      \* rows of the "file" table behind Database.conn
    queue,      \* closures in the mpsc channel, oldest first (ids of calls)
    calls,      \* every facade call made so far, by id: its owned arguments
    fut,        \* by id: the DatabaseCommandFutureState shared by call and closure
    actor,      \* position of the __run thread
    actorCmd,   \* the closure __run holds between recv and func(&db); 0 if none
    txAlive,    \* the facade (the only Sender) still exists
    pc,         \* by caller: position of its task inside a facade call
    cur,        \* by caller: id of its call in flight or last made; 0 if none
    ret,        \* by caller: value its last finished call returned
    execLog,    \* ids and results of the closures __run has run, in order
    fileExists, \* a file is present at the path of the stream
    fileSize,   \* length of that file in bytes
    file_md,    \* length reported by std::fs::metadata in query; -1 if not called
    stream,     \* which constructor made the FileStream; "none" before
    file_fut,   \* FileStreamState.file_fut
    read_fut,   \* FileStreamState.read_fut
    readRes,    \* what the read future in flight resolved to
    filePos,    \* read offset of the open fs::File
    items,      \* the items poll_next has yielded, in order
    lastPoll,   \* what the last poll_next returned
    woken,      \* a wake-up of the polling task is outstanding
    fsOps,      \* number of filesystem operations (open, read) started
    polls       \* number of poll_next calls made

dbVars == <<table, queue, calls, fut, actor, actorCmd, txAlive, pc, cur, ret, execLog>>
streamVars == <<fileExists, fileSize, file_md, stream, file_fut, read_fut, readRes,
                filePos, items, lastPoll, woken, fsOps, polls>>
vars == <<dbVars, streamVars>>

---------------------------------------------------------------------------
(* Bounds of the catalog side *)

MaxCmds == 3
MaxTime == 1
Callers == {"c1", "c2"}
Codes == {"a", "b"}
\* the codes each caller asks for: both callers meet on "a", only c1 uses "b"
CodesOf == [c \in Callers |-> IF c = "c1" THEN Codes ELSE {"a"}]
\* <<hash, content_type, file_ext>> each caller uploads; they differ in every field
FileVals == [c \in Callers |-> IF c = "c1" THEN <<"h1", "t1", "e1">> ELSE <<"h2", "t2", "">>]
Times == 0..MaxTime

---------------------------------------------------------------------------
(* Result<T> = std::result::Result<T, String>, and Option<Result<T>> *)

NoResult == [tag |-> "None", val |-> <<>>]
OkUnit == [tag |-> "Ok", val |-> <<>>]
OkNone == [tag |-> "Ok", val |-> <<"None">>]
OkSome(v) == [tag |-> "Ok", val |-> <<"Some">> \o v]
\* variant: the error carries no text of its cause
Err_anonymous(msg) == [tag |-> "Err", val |-> <<"error">>]

\* Err(e.to_string()): the error of a facade call is the String of its cause
Err(msg) == [tag |-> "Err", val |-> <<msg>>]

\* e.to_string() of mpsc::SendError and of rusqlite's unique violation
SendErrorText == "sending on a closed channel"
UniqueErrorText == "UNIQUE constraint failed: file.code"

---------------------------------------------------------------------------
(* Database: the blocking catalog store *)

RowsFor(t, code) == {r \in t : r.code = code}

\* SELECT hash, content_type, file_ext FROM file WHERE code = ?1 ; rows.next()
Database_get_file_for(t, code) ==
    IF RowsFor(t, code) = {}
    THEN [table |-> t, res |-> OkNone]
    ELSE LET data == CHOOSE r \in RowsFor(t, code) : TRUE
         IN  [table |-> t, res |-> OkSome(<<data.hash, data.content_type, data.file_ext>>)]

\* variant: the UPDATE without its WHERE clause
Database_update_file_stats_all(t, now, code) ==
    [table |-> {[r EXCEPT !.views = @ + 1, !.last_viewed = now] : r \in t},
     res |-> OkUnit]

\* UPDATE file SET views = views + 1, last_viewed = ?1 WHERE code = ?2
Database_update_file_stats(t, now, code) ==
    [table |-> {IF r.code = code
                THEN [r EXCEPT !.views = @ + 1, !.last_viewed = now]
                ELSE r : r \in t},
     res |-> OkUnit]

NewRow(code, hash, now, content_type, file_ext) ==
    [code |-> code, hash |-> hash, views |-> 0, last_viewed |-> now,
     content_type |-> content_type, file_ext |-> file_ext]

\* variant: INSERT OR REPLACE
Database_add_file_replace(t, now, code, hash, content_type, file_ext) ==
    [table |-> (t \ RowsFor(t, code)) \cup {NewRow(code, hash, now, content_type, file_ext)},
     res |-> OkUnit]

\* variant: the uniqueness is on "hash" instead of "code"
Database_add_file_unique_hash(t, now, code, hash, content_type, file_ext) ==
    IF {r \in t : r.hash = hash} # {}
    THEN [table |-> t, res |-> Err(UniqueErrorText)]
    ELSE [table |-> t \cup {NewRow(code, hash, now, content_type, file_ext)},
          res |-> OkUnit]

\* INSERT INTO file (code, hash, last_viewed, content_type, file_ext) VALUES (...)
\* "code" is UNIQUE and the PRIMARY KEY (init_db): a second row fails the statement
Database_add_file(t, now, code, hash, content_type, file_ext) ==
    IF RowsFor(t, code) # {}
    THEN [table |-> t, res |-> Err(UniqueErrorText)]
    ELSE [table |-> t \cup {NewRow(code, hash, now, content_type, file_ext)},
          res |-> OkUnit]

\* the store method the closure of call cmd invokes, with timestamp!() = now
StoreCall(t, cmd, now) ==
    IF cmd.op = "get_file_for" THEN Database_get_file_for(t, cmd.code)
    ELSE IF cmd.op = "update_file_stats" THEN Database_update_file_stats(t, now, cmd.code)
    ELSE Database_add_file(t, now, cmd.code, cmd.vals[1], cmd.vals[2], cmd.vals[3])

---------------------------------------------------------------------------
(* DatabaseCommandFutureState *)

DatabaseCommandFutureState_new == [result |-> NoResult, waker |-> FALSE, poisoned |-> FALSE]

\* variant: resolve stores the result and drops the waker without signalling it
DatabaseCommandFutureState_resolve_silent(state, result) ==
    [state |-> [state EXCEPT !.result = result, !.waker = FALSE],
     woke |-> FALSE]

\* resolve: store the result, take the waker; woke says whether a waker was signalled
DatabaseCommandFutureState_resolve(state, result) ==
    [state |-> [state EXCEPT !.result = result, !.waker = FALSE],
     woke |-> state.waker]

---------------------------------------------------------------------------
(* The mpsc channel between the facade and __run *)

tx_send(q, id) == Append(q, id)

\* variant: the newest closure is received first
rx_recv_newest(q) == [func |-> q[Len(q)], rest |-> SubSeq(q, 1, Len(q) - 1)]

rx_recv(q) == [func |-> Head(q), rest |-> Tail(q)]

\* the receiving end exists as long as the thread is inside __run
rxAlive == actor \in {"recv", "exec"}

---------------------------------------------------------------------------
(* DatabaseAsyncWrapper: the facade calls *)

\* variant: the result of tx.send is ignored
SendOutcome_always_ok == "Ok"

\* what tx.send returns to a facade call made in the current state
SendOutcome == IF rxAlive THEN "Ok" ELSE "Err"

\* variant: the calling task runs the store method itself instead of sending it
Submit_direct(c, op, code, v) ==
    /\ txAlive
    /\ pc[c] = "idle"
    /\ Len(calls) < MaxCmds
    /\ \E now \in Times :
         LET cmd == [caller |-> c, op |-> op, code |-> code, vals |-> v, sent |-> FALSE]
             out == StoreCall(table, cmd, now)
         IN  /\ cur' = [cur EXCEPT ![c] = Len(calls) + 1]
             /\ fut' = Append(fut, DatabaseCommandFutureState_new)
             /\ calls' = Append(calls, cmd)
             /\ table' = out.table
             /\ ret' = [ret EXCEPT ![c] = out.res]
    /\ UNCHANGED <<queue, pc, actor, actorCmd, txAlive, execLog, streamVars>>

\* common body of get_file_for / update_file_stats / add_file: build the future,
\* send the closure (handle_result! returns the error at once), else go on to await
Submit(c, op, code, v) ==
    /\ txAlive
    /\ pc[c] = "idle"
    /\ Len(calls) < MaxCmds
    /\ LET id == Len(calls) + 1
       IN  /\ cur' = [cur EXCEPT ![c] = id]
           /\ fut' = Append(fut, DatabaseCommandFutureState_new)
           /\ IF SendOutcome = "Ok"
              THEN /\ calls' = Append(calls, [caller |-> c, op |-> op, code |-> code,
                                              vals |-> v, sent |-> TRUE])
                   /\ queue' = tx_send(queue, id)
                   /\ pc' = [pc EXCEPT ![c] = "polling"]
                   /\ ret' = [ret EXCEPT ![c] = NoResult]
              ELSE /\ calls' = Append(calls, [caller |-> c, op |-> op, code |-> code,
                                              vals |-> v, sent |-> FALSE])
                   /\ queue' = queue
                   /\ pc' = pc
                   /\ ret' = [ret EXCEPT ![c] = Err(SendErrorText)]
    /\ UNCHANGED <<table, actor, actorCmd, txAlive, execLog, streamVars>>

DatabaseAsyncWrapper_get_file_for(c) ==
    \E code \in CodesOf[c] : Submit(c, "get_file_for", code, <<>>)

DatabaseAsyncWrapper_update_file_stats(c) ==
    \E code \in CodesOf[c] : Submit(c, "update_file_stats", code, <<>>)

DatabaseAsyncWrapper_add_file(c) ==
    \E code \in CodesOf[c] : Submit(c, "add_file", code, FileVals[c])

\* variant: poll copies the result and leaves it in the state
PollOutcome_keep(state) ==
    IF state.poisoned THEN [pc |-> "panicked", ret |-> NoResult, state |-> state]
    ELSE IF state.result # NoResult
    THEN [pc |-> "idle", ret |-> state.result, state |-> state]
    ELSE [pc |-> "pending", ret |-> NoResult, state |-> [state EXCEPT !.waker = TRUE]]

\* DatabaseCommandFuture::poll: the first poll of future.await ("polling") and the
\* poll of the task scheduled by its waker ("woken")
PollOutcome(state) ==
    IF state.poisoned THEN [pc |-> "panicked", ret |-> NoResult, state |-> state]
    ELSE IF state.result # NoResult
    THEN [pc |-> "idle", ret |-> state.result,
          state |-> [state EXCEPT !.result = NoResult]]
    ELSE [pc |-> "pending", ret |-> NoResult, state |-> [state EXCEPT !.waker = TRUE]]

DatabaseCommandFuture_poll(c) ==
    /\ pc[c] \in {"polling", "woken"}
    /\ LET o == PollOutcome(fut[cur[c]])
       IN  /\ pc' = [pc EXCEPT ![c] = o.pc]
           /\ ret' = [ret EXCEPT ![c] = o.ret]
           /\ fut' = [fut EXCEPT ![cur[c]] = o.state]
    /\ UNCHANGED <<table, queue, calls, actor, actorCmd, txAlive, cur, execLog, streamVars>>

\* the task of a caller is dropped while it is suspended in future.await, woken or
\* not (the request is abandoned): the closure keeps its clone of the future state
DropCaller(c) ==
    /\ pc[c] \in {"pending", "woken"}
    /\ pc' = [pc EXCEPT ![c] = "dropped"]
    /\ UNCHANGED <<table, queue, calls, fut, actor, actorCmd, txAlive, cur, ret, execLog, streamVars>>

\* the facade is dropped; it is borrowed by every call in flight
DropFacade ==
    /\ txAlive
    /\ \A c \in Callers : pc[c] \in {"idle", "dropped", "panicked"}
    /\ txAlive' = FALSE
    /\ UNCHANGED <<table, queue, calls, fut, actor, actorCmd, pc, cur, ret, execLog, streamVars>>

---------------------------------------------------------------------------
(* DatabaseAsyncWrapper::__run: the actor thread *)

\* rx.recv() returns Ok(func)
run_recv ==
    /\ actor = "recv"
    /\ queue # <<>>
    /\ LET r == rx_recv(queue)
       IN  /\ actorCmd' = r.func
           /\ queue' = r.rest
    /\ actor' = "exec"
    /\ UNCHANGED <<table, calls, fut, txAlive, pc, cur, ret, execLog, streamVars>>

\* rx.recv() returns Err: the channel is empty and every Sender is gone
run_disconnected ==
    /\ actor = "recv"
    /\ queue = <<>>
    /\ ~txAlive
    /\ actor' = "exited"
    /\ UNCHANGED <<table, queue, calls, fut, actorCmd, txAlive, pc, cur, ret, execLog, streamVars>>

\* variant: every closure resolves the state of the first call
closure_state_first(id) == 1

\* the future state the closure of call id captured (state = future.0.clone())
closure_state(id) == id

\* variant: the waker schedules the task whether it still exists or not
wake_any(p, c) == [p EXCEPT ![c] = "woken"]

\* waker.wake(): the task of caller c is scheduled again if it still waits
wake(p, c) == IF p[c] = "pending" THEN [p EXCEPT ![c] = "woken"] ELSE p

\* variant: __run leaves its loop when the store gave an error
run_after_func_stops(res) == IF res.tag = "Err" THEN "exited" ELSE "recv"

\* where __run goes after func(&db) returned, whatever result the store gave
run_after_func(res) == "recv"

\* func(&db): state.lock().unwrap().resolve(db.<method>(...))
run_func ==
    /\ actor = "exec"
    /\ \E now \in Times :
         LET cmd == calls[actorCmd]
             out == StoreCall(table, cmd, now)
             h   == closure_state(actorCmd)
             rs  == DatabaseCommandFutureState_resolve(fut[h], out.res)
         IN  /\ table' = out.table
             /\ fut' = [fut EXCEPT ![h] = rs.state]
             /\ pc' = IF rs.woke THEN wake(pc, calls[h].caller) ELSE pc
             /\ execLog' = Append(execLog, [id |-> actorCmd, res |-> out.res])
             /\ actor' = run_after_func(out.res)
    /\ actorCmd' = 0
    /\ UNCHANGED <<queue, calls, txAlive, cur, ret, streamVars>>

\* timestamp!() unwraps duration_since(UNIX_EPOCH): with the system clock before
\* the epoch the closure panics while it holds the lock of its future state. The
\* thread unwinds: the lock is poisoned, the Receiver and the queued closures drop.
run_func_panics ==
    /\ actor = "exec"
    /\ calls[actorCmd].op \in {"update_file_stats", "add_file"}
    /\ fut' = [fut EXCEPT ![actorCmd].poisoned = TRUE]
    /\ actor' = "panicked"
    /\ actorCmd' = 0
    /\ queue' = <<>>
    /\ UNCHANGED <<table, calls, txAlive, pc, cur, ret, execLog, streamVars>>

---------------------------------------------------------------------------
(* Catalog side: initial state and next-state relation *)

StreamIdle ==
    /\ fileExists = FALSE
    /\ fileSize = 0
    /\ file_md = -1
    /\ stream = "none"
    /\ file_fut = "None"
    /\ read_fut = "None"
    /\ readRes = 0
    /\ filePos = 0
    /\ items = <<>>
    /\ lastPoll = "none"
    /\ woken = FALSE
    /\ fsOps = 0
    /\ polls = 0

DbInit ==
    /\ table = {}
    /\ queue = <<>>
    /\ calls = <<>>
    /\ fut = <<>>
    /\ actor = "recv"
    /\ actorCmd = 0
    /\ txAlive = TRUE
    /\ pc = [c \in Callers |-> "idle"]
    /\ cur = [c \in Callers |-> 0]
    /\ ret = [c \in Callers |-> NoResult]
    /\ execLog = <<>>

Init == DbInit /\ StreamIdle

Next ==
    \/ \E c \in Callers : DatabaseAsyncWrapper_get_file_for(c)
    \/ \E c \in Callers : DatabaseAsyncWrapper_update_file_stats(c)
    \/ \E c \in Callers : DatabaseAsyncWrapper_add_file(c)
    \/ \E c \in Callers : DatabaseCommandFuture_poll(c)
    \/ \E c \in Callers : DropCaller(c)
    \/ DropFacade
    \/ run_recv
    \/ run_disconnected
    \/ run_func
    \/ run_func_panics

Spec == Init /\ [][Next]_vars

---------------------------------------------------------------------------
(* Bounds of the file stream side *)

MaxPolls == 12
\* let buf = BytesMut::zeroed(2097152)
ChunkSize == 2097152
FileSizes == {0, 1, ChunkSize - 1, ChunkSize, ChunkSize + 1, 2 * ChunkSize, 5000000}
\* lengths a read may return short of the buffer and of the rest of the file
ShortReadLens == {1, 4096}

Min(a, b) == IF a < b THEN a ELSE b

\* file.read(&mut buf): 0 at end of file, else between 1 and the buffer length
ReadLens(rest) ==
    IF rest = 0 THEN {0}
    ELSE {Min(ChunkSize, rest)} \cup {n \in ShortReadLens : n < Min(ChunkSize, rest)}

---------------------------------------------------------------------------
(* FileStreamState and FileStream *)

Pending == [kind |-> "Pending", len |-> 0]
EndOfStream == [kind |-> "End", len |-> 0]
Chunk(n) == [kind |-> "Chunk", len |-> n]
ErrItem == [kind |-> "Err", len |-> 0]

\* FileStreamState::new: the open is not started before the first poll
FileStreamState_new == [file_fut |-> "Created", read_fut |-> "None"]

\* variant: the empty stream is built on the file like new
FileStreamState_empty_opens == [file_fut |-> "Created", read_fut |-> "None"]

\* FileStreamState::empty: a read future that is ready with (Bytes::new(), None)
FileStreamState_empty == [file_fut |-> "None", read_fut |-> "Empty"]

\* what the future of __make_read_fut resolves to when file.read returned len
make_read_fut(len) ==
    IF len = 0 THEN [bytes |-> 0, file |-> FALSE]
    ELSE [bytes |-> len, file |-> TRUE]

\* variant: after a successful open poll_next returns Pending without waking itself
poll_file_fut_no_wake(st) ==
    IF st.file_fut = "Created"
    THEN [file_fut |-> "Running", read_fut |-> st.read_fut, out |-> Pending,
          wake |-> FALSE, op |-> TRUE]
    ELSE IF st.file_fut = "Running"
    THEN [file_fut |-> "Running", read_fut |-> st.read_fut, out |-> Pending,
          wake |-> FALSE, op |-> FALSE]
    ELSE IF st.file_fut = "ReadyOk"
    THEN [file_fut |-> "None", read_fut |-> "Created", out |-> Pending,
          wake |-> FALSE, op |-> FALSE]
    ELSE [file_fut |-> "None", read_fut |-> st.read_fut, out |-> ErrItem,
          wake |-> FALSE, op |-> FALSE]

\* poll_next, the branch of file_fut; op says a filesystem operation is started
poll_file_fut(st) ==
    IF st.file_fut = "Created"
    THEN [file_fut |-> "Running", read_fut |-> st.read_fut, out |-> Pending,
          wake |-> FALSE, op |-> TRUE]
    ELSE IF st.file_fut = "Running"
    THEN [file_fut |-> "Running", read_fut |-> st.read_fut, out |-> Pending,
          wake |-> FALSE, op |-> FALSE]
    ELSE IF st.file_fut = "ReadyOk"
    THEN [file_fut |-> "None", read_fut |-> "Created", out |-> Pending,
          wake |-> TRUE, op |-> FALSE]
    ELSE [file_fut |-> "None", read_fut |-> st.read_fut, out |-> ErrItem,
          wake |-> FALSE, op |-> FALSE]

\* variant: a failed read leaves the read future in place
poll_read_fut_keeps_failed(st) ==
    IF st.read_fut = "Empty"
    THEN [file_fut |-> "None", read_fut |-> "None", out |-> Chunk(0),
          wake |-> FALSE, op |-> FALSE]
    ELSE IF st.read_fut = "Created"
    THEN [file_fut |-> "None", read_fut |-> "Running", out |-> Pending,
          wake |-> FALSE, op |-> TRUE]
    ELSE IF st.read_fut = "Running"
    THEN [file_fut |-> "None", read_fut |-> "Running", out |-> Pending,
          wake |-> FALSE, op |-> FALSE]
    ELSE IF st.read_fut = "Ready"
    THEN [file_fut |-> "None",
          read_fut |-> IF make_read_fut(st.readRes).file THEN "Created" ELSE "None",
          out |-> Chunk(make_read_fut(st.readRes).bytes),
          wake |-> FALSE, op |-> FALSE]
    ELSE [file_fut |-> "None", read_fut |-> "ReadyErr", out |-> ErrItem,
          wake |-> FALSE, op |-> FALSE]

\* poll_next, the branch of read_fut
poll_read_fut(st) ==
    IF st.read_fut = "Empty"
    THEN [file_fut |-> "None", read_fut |-> "None", out |-> Chunk(0),
          wake |-> FALSE, op |-> FALSE]
    ELSE IF st.read_fut = "Created"
    THEN [file_fut |-> "None", read_fut |-> "Running", out |-> Pending,
          wake |-> FALSE, op |-> TRUE]
    ELSE IF st.read_fut = "Running"
    THEN [file_fut |-> "None", read_fut |-> "Running", out |-> Pending,
          wake |-> FALSE, op |-> FALSE]
    ELSE IF st.read_fut = "Ready"
    THEN [file_fut |-> "None",
          read_fut |-> IF make_read_fut(st.readRes).file THEN "Created" ELSE "None",
          out |-> Chunk(make_read_fut(st.readRes).bytes),
          wake |-> FALSE, op |-> FALSE]
    ELSE [file_fut |-> "None", read_fut |-> "None", out |-> ErrItem,
          wake |-> FALSE, op |-> FALSE]

\* FileStream::poll_next on the state st = (file_fut, read_fut, result of the read)
PollNext(st) ==
    IF st.file_fut # "None" THEN poll_file_fut(st)
    ELSE IF st.read_fut # "None" THEN poll_read_fut(st)
    ELSE [file_fut |-> "None", read_fut |-> "None", out |-> EndOfStream,
          wake |-> FALSE, op |-> FALSE]

\* the consumer polls at first, after every item, and after Pending once woken
CanPoll == stream # "none" /\ (lastPoll # "Pending" \/ woken) /\ polls < MaxPolls

poll_next ==
    /\ CanPoll
    /\ LET r == PollNext([file_fut |-> file_fut, read_fut |-> read_fut, readRes |-> readRes])
       IN  /\ file_fut' = r.file_fut
           /\ read_fut' = r.read_fut
           /\ woken' = r.wake
           /\ fsOps' = IF r.op THEN fsOps + 1 ELSE fsOps
           /\ lastPoll' = IF r.out.kind \in {"Chunk", "Err"} THEN "Item" ELSE r.out.kind
           /\ items' = IF r.out.kind \in {"Chunk", "Err"} THEN Append(items, r.out) ELSE items
    /\ polls' = polls + 1
    /\ UNCHANGED <<fileExists, fileSize, file_md, stream, readRes, filePos, dbVars>>

\* fs::File::open finishes on the blocking pool and wakes the polling task
OpenCompletes ==
    /\ file_fut = "Running"
    /\ \/ fileExists /\ file_fut' = "ReadyOk"
       \/ file_fut' = "ReadyErr"
    /\ woken' = TRUE
    /\ UNCHANGED <<fileExists, fileSize, file_md, stream, read_fut, readRes, filePos,
                   items, lastPoll, fsOps, polls, dbVars>>

\* file.read finishes on the blocking pool and wakes the polling task
ReadCompletes ==
    /\ read_fut = "Running"
    /\ \/ \E len \in ReadLens(fileSize - filePos) :
            /\ read_fut' = "Ready"
            /\ readRes' = len
            /\ filePos' = filePos + len
       \/ /\ read_fut' = "ReadyErr"
          /\ UNCHANGED <<readRes, filePos>>
    /\ woken' = TRUE
    /\ UNCHANGED <<fileExists, fileSize, file_md, stream, file_fut,
                   items, lastPoll, fsOps, polls, dbVars>>

\* FileStream::from_path(path)
FileStream_from_path ==
    /\ stream = "none"
    /\ stream' = "from_path"
    /\ file_fut' = FileStreamState_new.file_fut
    /\ read_fut' = FileStreamState_new.read_fut
    /\ UNCHANGED <<fileExists, fileSize, file_md, readRes, filePos, items, lastPoll,
                   woken, fsOps, polls, dbVars>>

\* FileStream::empty()
FileStream_empty ==
    /\ stream = "none"
    /\ stream' = "empty"
    /\ file_fut' = FileStreamState_empty.file_fut
    /\ read_fut' = FileStreamState_empty.read_fut
    /\ UNCHANGED <<fileExists, fileSize, file_md, readRes, filePos, items, lastPoll,
                   woken, fsOps, polls, dbVars>>

\* query, after the lookup found the code: std::fs::metadata(&path) must succeed,
\* then GET builds the stream from the path and HEAD the empty stream
query(method) ==
    /\ stream = "none"
    /\ file_md = -1
    /\ fileExists
    /\ file_md' = fileSize
    /\ stream' = IF method = "GET" THEN "from_path" ELSE "empty"
    /\ file_fut' = IF method = "GET" THEN FileStreamState_new.file_fut
                   ELSE FileStreamState_empty.file_fut
    /\ read_fut' = IF method = "GET" THEN FileStreamState_new.read_fut
                   ELSE FileStreamState_empty.read_fut
    /\ UNCHANGED <<fileExists, fileSize, readRes, filePos, items, lastPoll,
                   woken, fsOps, polls, dbVars>>

---------------------------------------------------------------------------
(* File stream side: initial state and next-state relation *)

StreamInit ==
    /\ DbInit
    /\ fileExists \in BOOLEAN
    /\ fileSize \in (IF fileExists THEN FileSizes ELSE {0})
    /\ file_md = -1
    /\ stream = "none"
    /\ file_fut = "None"
    /\ read_fut = "None"
    /\ readRes = 0
    /\ filePos = 0
    /\ items = <<>>
    /\ lastPoll = "none"
    /\ woken = FALSE
    /\ fsOps = 0
    /\ polls = 0

StreamNext ==
    \/ \E method \in {"GET", "HEAD"} : query(method)
    \/ FileStream_from_path
    \/ FileStream_empty
    \/ poll_next
    \/ OpenCompletes
    \/ ReadCompletes

StreamSpec == StreamInit /\ [][StreamNext]_vars

---------------------------------------------------------------------------
(* Claims about the file stream side, checked under StreamSpec *)

HasErr == \E i \in 1..Len(items) : items[i].kind = "Err"
Lens == [i \in 1..Len(items) |-> items[i].len]

RECURSIVE SumSeq(_)
SumSeq(q) == IF q = <<>> THEN 0 ELSE Head(q) + SumSeq(Tail(q))

\* floor(S/C) lengths C, then S mod C when that is not zero
ExpectedLens(S) ==
    [i \in 1..(S \div ChunkSize) |-> ChunkSize]
        \o (IF S % ChunkSize # 0 THEN <<S % ChunkSize>> ELSE <<>>)

\* the stream over a file has returned end-of-sequence and yielded no error item
EndedClean == stream = "from_path" /\ lastPoll = "End" /\ ~HasErr

\* C5: a stream over a file of size S that has ended without an error has yielded
\* exactly floor(S/C) chunks of length C, then one of length S mod C when that is
\* not zero, and nothing else (no item for the read that returned zero).
C5_ExactChunkLengths == EndedClean => Lens = ExpectedLens(fileSize)

\* C6: for a stream built by query that has ended without an error, the lengths of
\* the yielded chunks sum to the length metadata reported before the stream was
\* built, and every chunk but the final one has the fixed chunk size.
C6_SumAndOnlyFinalShort ==
    (EndedClean /\ file_md >= 0) =>
        /\ SumSeq(Lens) = file_md
        /\ \A i \in 1..(Len(items) - 1) : items[i].len = ChunkSize

\* C7: the empty stream starts no filesystem operation, its first poll yields a
\* zero-length chunk, and every later poll returns end-of-sequence.
C7_EmptyStream ==
    stream = "empty" =>
        /\ fsOps = 0
        /\ file_fut = "None"
        /\ polls = 0 => items = <<>>
        /\ polls >= 1 => items = <<Chunk(0)>>
        /\ polls = 1 => lastPoll = "Item"
        /\ polls >= 2 => lastPoll = "End"

\* the empty stream, built where no file exists, has been polled past its end
C7_Witness == stream = "empty" /\ ~fileExists /\ polls >= 3 /\ lastPoll = "End"

\* C8: a failed open or read makes the next poll yield one error item; an error item
\* is the last item: after it nothing is yielded, no filesystem operation is started,
\* no future is left in the state, and every poll returns end-of-sequence.
C8_ErrorIsLast ==
    /\ [](\A i \in 1..Len(items) : items[i].kind = "Err" => i = Len(items))
    /\ [][(polls' # polls /\ (file_fut = "ReadyErr"
                               \/ (file_fut = "None" /\ read_fut = "ReadyErr")))
             => items' = Append(items, ErrItem)]_vars
    /\ [][HasErr =>
             /\ items' = items
             /\ fsOps' = fsOps
             /\ file_fut' = "None" /\ read_fut' = "None"
             /\ polls' # polls => lastPoll' = "End"]_vars

\* a read failed after a chunk had been yielded, and the stream was polled again
C8_Witness ==
    /\ Len(items) >= 2
    /\ items[1].kind = "Chunk"
    /\ items[Len(items)].kind = "Err"
    /\ lastPoll = "End"

---------------------------------------------------------------------------
(* Claims about the catalog side, checked under Spec *)

Cmd(j) == calls[execLog[j].id]
Executed == 1..Len(execLog)
SentIds == {i \in 1..Len(calls) : calls[i].sent}
ValsOfRow(r) == <<r.hash, r.content_type, r.file_ext>>

\* the step in which __run finishes running the closure of an op call
Runs(op) == actor = "exec" /\ actor' = "recv" /\ calls[actorCmd].op = op

\* C1: strict FIFO execution. Whenever the actor has executed a command B, it has
\* executed before B every command A that was enqueued before B, whoever sent it.
C1_FifoExecution ==
    \A j \in Executed : \A a \in SentIds :
        a < execLog[j].id => \E i \in 1..(j - 1) : execLog[i].id = a

\* two different commands of different callers, outstanding together (neither caller
\* has been handed its result yet), have both been executed
C1_Witness ==
    /\ Len(execLog) >= 2
    /\ Cmd(1).caller # Cmd(2).caller
    /\ Cmd(1).op # Cmd(2).op
    /\ pc[Cmd(1).caller] # "idle" /\ cur[Cmd(1).caller] = execLog[1].id
    /\ pc[Cmd(2).caller] # "idle" /\ cur[Cmd(2).caller] = execLog[2].id

\* C2: once insert(code, hash, type, ext) has succeeded, every lookup(code) executed
\* later returns exactly (hash, type, ext), and the store holds those values for the
\* code in every later state, whatever was executed in between.
C2_LookupAfterInsert ==
    \A i \in Executed :
        (Cmd(i).op = "add_file" /\ execLog[i].res = OkUnit) =>
            /\ Database_get_file_for(table, Cmd(i).code).res = OkSome(Cmd(i).vals)
            /\ \A j \in Executed :
                 (i < j /\ Cmd(j).op = "get_file_for" /\ Cmd(j).code = Cmd(i).code)
                     => execLog[j].res = OkSome(Cmd(i).vals)

\* a successful insert, then a failed insert of the same code with other values,
\* then a lookup of the code
C2_Witness ==
    \E i, k, j \in Executed :
        /\ i < k /\ k < j
        /\ Cmd(i).op = "add_file" /\ execLog[i].res = OkUnit
        /\ Cmd(k).op = "add_file" /\ Cmd(k).code = Cmd(i).code
        /\ Cmd(k).vals # Cmd(i).vals /\ execLog[k].res.tag = "Err"
        /\ Cmd(j).op = "get_file_for" /\ Cmd(j).code = Cmd(i).code

\* C3: an insert whose code already exists fails with the storage error and leaves
\* the table, so every field of the existing row, as it was.
C3_DuplicateInsertFails ==
    [][(Runs("add_file") /\ RowsFor(table, calls[actorCmd].code) # {}) =>
          /\ table' = table
          /\ execLog'[Len(execLog')].res = Err(UniqueErrorText)
          /\ fut'[actorCmd].result = Err(UniqueErrorText)]_vars

\* a duplicate insert has failed on a row that had been viewed
C3_Witness ==
    \E i, k, j \in Executed :
        /\ i < k /\ k < j
        /\ Cmd(i).op = "add_file" /\ execLog[i].res = OkUnit
        /\ Cmd(k).op = "update_file_stats" /\ Cmd(k).code = Cmd(i).code
        /\ Cmd(j).op = "add_file" /\ Cmd(j).code = Cmd(i).code
        /\ Cmd(j).vals # Cmd(i).vals /\ execLog[j].res = Err(UniqueErrorText)

\* C4: once the receiving end of the actor is gone, every facade call returns the
\* send error at once: nothing is enqueued, no waker is stored, the caller does not
\* wait.
C4_ClosedChannelFails ==
    [][~rxAlive =>
          \A c \in Callers :
              cur'[c] # cur[c] =>
                  /\ pc'[c] = "idle"
                  /\ ret'[c] = Err(SendErrorText)
                  /\ queue' = queue
                  /\ ~calls'[cur'[c]].sent
                  /\ ~fut'[cur'[c]].waker]_vars

\* each kind of call has been made after the receiving end was gone
C4_Witness ==
    /\ ~rxAlive
    /\ \E i, j \in 1..Len(calls) :
         /\ ~calls[i].sent /\ ~calls[j].sent
         /\ calls[i].op = "get_file_for" /\ calls[j].op = "add_file"
         /\ ret[calls[j].caller] = Err(SendErrorText)

\* the inserts whose code no other insert uses
DistinctInserts ==
    {i \in SentIds : /\ calls[i].op = "add_file"
                     /\ \A k \in SentIds \ {i} :
                          calls[k].op = "add_file" => calls[k].code # calls[i].code}

\* C9: every executed insert whose code no other insert uses has succeeded, whatever
\* the interleaving of the callers, and from then on lookup of its code returns its
\* own values; every row of the table holds the values of one single insert.
C9_DistinctInsertsSucceed ==
    /\ \A j \in Executed :
         execLog[j].id \in DistinctInserts =>
             /\ execLog[j].res = OkUnit
             /\ Database_get_file_for(table, Cmd(j).code).res = OkSome(Cmd(j).vals)
    /\ \A r \in table :
         /\ RowsFor(table, r.code) = {r}
         /\ \E j \in Executed :
              /\ Cmd(j).op = "add_file" /\ execLog[j].res = OkUnit
              /\ Cmd(j).code = r.code /\ Cmd(j).vals = ValsOfRow(r)

\* two callers have inserts of distinct codes outstanding together (the first caller
\* has not been handed its result yet) and both inserts are executed
C9_Witness ==
    /\ Len(execLog) >= 2
    /\ {execLog[1].id, execLog[2].id} \subseteq DistinctInserts
    /\ Cmd(1).caller # Cmd(2).caller
    /\ pc[Cmd(1).caller] # "idle" /\ cur[Cmd(1).caller] = execLog[1].id
    /\ pc[Cmd(2).caller] # "idle" /\ cur[Cmd(2).caller] = execLog[2].id

\* C10: recordView succeeds, creates and removes no row, and leaves every row of
\* another code as it was; on an existing code it adds exactly 1 to the views of that
\* row and keeps its hash, type and extension; on a missing code the table is
\* unchanged.
C10_RecordView ==
    [][Runs("update_file_stats") =>
          LET code == calls[actorCmd].code
          IN  /\ execLog'[Len(execLog')].res = OkUnit
              /\ {r.code : r \in table'} = {r.code : r \in table}
              /\ Cardinality(table') = Cardinality(table)
              /\ \A r \in table : r.code # code => r \in table'
              /\ \A r \in RowsFor(table, code) :
                   \E r2 \in table' :
                       /\ r2.code = code
                       /\ r2.views = r.views + 1
                       /\ ValsOfRow(r2) = ValsOfRow(r)
              /\ RowsFor(table, code) = {} => table' = table]_vars

\* recordView has run on an existing code while the table held a row of another code
C10_Witness ==
    /\ Len(execLog) = 3
    /\ Cmd(1).op = "add_file" /\ Cmd(2).op = "add_file" /\ Cmd(1).code # Cmd(2).code
    /\ Cmd(3).op = "update_file_stats"
    /\ \E r \in table : r.views = 1
    /\ \E r \in table : r.views = 0

\* C11: a row's last_viewed never decreases: no step leaves a row with a last_viewed
\* smaller than the one it had, the value written by the insert included.
C11_LastViewedMonotonic ==
    [][\A r \in table : \A r2 \in table' :
          r2.code = r.code => r2.last_viewed >= r.last_viewed]_vars

\* the step in which __run finishes running the closure of a call whose caller was
\* dropped while it awaited that call
RunsDropped == actor = "exec" /\ actor' = "recv" /\ pc[calls[actorCmd].caller] = "dropped"
                /\ cur[calls[actorCmd].caller] = actorCmd

\* C12: dropping a caller that awaits its handle takes nothing back from the actor
\* (the queue and the running command stay); when the actor runs the command of a
\* dropped caller the store effect is applied as for any command, the result is
\* stored in the handle but no caller is resumed or handed a result, and the actor
\* returns to receiving; a dropped caller is never handed a result afterwards.
C12_DroppedCallerStillExecuted ==
    /\ [][\A c \in Callers :
            (pc[c] # "dropped" /\ pc'[c] = "dropped") =>
                /\ queue' = queue /\ actorCmd' = actorCmd /\ actor' = actor
                /\ fut' = fut /\ table' = table]_vars
    /\ [][RunsDropped =>
            /\ \E now \in Times : table' = StoreCall(table, calls[actorCmd], now).table
            /\ fut'[actorCmd].result = execLog'[Len(execLog')].res
            /\ execLog'[Len(execLog')].id = actorCmd
            /\ pc' = pc /\ ret' = ret
            /\ queue' = queue]_vars
    /\ [][\A c \in Callers : pc[c] = "dropped" => pc'[c] = "dropped" /\ ret'[c] = ret[c]]_vars
    /\ [](\A c \in Callers : pc[c] = "dropped" => ret[c] = NoResult)

\* a caller was dropped while its insert was still queued; the insert has been
\* executed, its row is in the table, and a later command has been executed after it
C12_Witness ==
    \E c \in Callers : \E i, j \in Executed :
        /\ pc[c] = "dropped" /\ cur[c] = execLog[i].id
        /\ Cmd(i).op = "add_file" /\ execLog[i].res = OkUnit
        /\ RowsFor(table, Cmd(i).code) # {}
        /\ fut[cur[c]].waker = FALSE /\ fut[cur[c]].result = OkUnit
        /\ i < j

C14_StorageErrorNotFatal ==
    /\ [][(actor = "exec" /\ Len(execLog') > Len(execLog)
             /\ execLog'[Len(execLog')].res.tag = "Err") =>
            /\ actor' = "recv"
            /\ rxAlive'
            /\ queue' = queue
            /\ table' = table
            /\ fut'[actorCmd].result = execLog'[Len(execLog')].res
            /\ ~fut'[actorCmd].poisoned]_vars
    /\ [](\A j \in Executed :
            execLog[j].res.tag = "Err" =>
                /\ actor = "exited" => ~txAlive
                /\ \A k \in SentIds :
                     k > execLog[j].id =>
                         \/ \E i \in Executed : i > j /\ execLog[i].id = k
                         \/ \E i \in 1..Len(queue) : queue[i] = k
                         \/ actorCmd = k
                         \/ actor = "panicked")

\* a duplicate insert failed, its caller was handed the failure, and a command
\* submitted after the failure was delivered has been executed
C14_Witness ==
    \E j \in Executed :
        /\ execLog[j].res = Err(UniqueErrorText)
        /\ j + 1 \in Executed
        /\ Cmd(j + 1).caller = Cmd(j).caller
        /\ execLog[j + 1].res.tag = "Ok"

\* C15: a handle is resolved at most once and observed at most once: no command
\* appears twice in the log of executions, a result is only ever stored into a handle
\* that holds none and whose command had not been executed, the poll that hands a
\* result to its caller takes it out of the handle, and a handle whose result was
\* taken never holds a result again.
C15_ResolvedOnceObservedOnce ==
    /\ [](\A i, j \in Executed : execLog[i].id = execLog[j].id => i = j)
    /\ [][\A h \in 1..Len(fut) :
            (fut'[h].result # fut[h].result /\ fut'[h].result # NoResult) =>
                /\ fut[h].result = NoResult
                /\ \A j \in Executed : execLog[j].id # h
                /\ execLog' = Append(execLog, [id |-> h, res |-> fut'[h].result])]_vars
    /\ [][\A c \in Callers :
            (pc[c] \in {"polling", "woken"} /\ pc'[c] = "idle") =>
                /\ ret'[c] = fut[cur[c]].result
                /\ ret'[c] # NoResult
                /\ fut'[cur[c]].result = NoResult]_vars
    /\ [](\A c \in Callers :
            (pc[c] = "idle" /\ cur[c] # 0 /\ calls[cur[c]].sent) =>
                /\ fut[cur[c]].result = NoResult
                /\ PollOutcome(fut[cur[c]]).ret = NoResult)

\* a caller was handed the result of its first call, has made a second call, and
\* the handle of the first call is empty while both commands are in the log
C15_Witness ==
    \E c \in Callers : \E i, j \in Executed :
        /\ i < j
        /\ Cmd(i).caller = c /\ Cmd(j).caller = c
        /\ fut[execLog[i].id].result = NoResult
        /\ pc[c] = "idle" /\ ret[c] = execLog[j].res

\* C16: the store is accessed by the actor thread only and by one command at a
\* time: the table changes only in the step in which __run finishes the one closure
\* it is running, a step of a caller task (a call, a poll, a drop) leaves the table
\* as it was, the thread runs a closure exactly while it holds one, that closure is
\* neither queued nor already executed, and it receives the next closure only after
\* the one it runs has returned.
C16_SingleExecutor ==
    /\ [][table' # table =>
            /\ actor = "exec" /\ actor' = "recv"
            /\ actorCmd # 0 /\ actorCmd' = 0
            /\ execLog' = Append(execLog, [id |-> actorCmd,
                                           res |-> fut'[actorCmd].result])
            /\ pc' = pc \/ pc' = wake(pc, calls[actorCmd].caller)
            /\ cur' = cur /\ ret' = ret /\ calls' = calls]_vars
    /\ [][(cur' # cur \/ ret' # ret \/ calls' # calls) =>
            /\ table' = table /\ execLog' = execLog
            /\ actor' = actor /\ actorCmd' = actorCmd]_vars
    /\ [][(actorCmd # 0 /\ actorCmd' # actorCmd) => actorCmd' = 0]_vars
    /\ [](/\ actor = "exec" <=> actorCmd # 0
          /\ actorCmd # 0 =>
               /\ actorCmd \in SentIds
               /\ \A i \in 1..Len(queue) : queue[i] # actorCmd
               /\ \A j \in Executed : execLog[j].id # actorCmd)

\* both callers have a command outstanding that writes the same row; the actor is
\* running the first of them while the second waits in the queue
C16_Witness ==
    /\ actor = "exec"
    /\ Len(queue) >= 1
    /\ calls[actorCmd].caller # calls[queue[1]].caller
    /\ calls[actorCmd].op = "update_file_stats"
    /\ calls[queue[1]].op = "update_file_stats"
    /\ calls[actorCmd].code = calls[queue[1]].code
    /\ RowsFor(table, calls[actorCmd].code) # {}

\* C17: the actor loop exits only when every Sender is gone: while the facade exists
\* the thread is inside __run, receiving or running a closure, and a thread that is
\* no longer inside __run has executed every command that was sent.
C17_ExitsOnlyWhenSendersGone ==
    /\ txAlive => actor \in {"recv", "exec"}
    /\ actor \notin {"recv", "exec"} =>
         /\ ~txAlive
         /\ \A k \in SentIds : \E j \in Executed : execLog[j].id = k

---------------------------------------------------------------------------
(* The catalog side under fair scheduling: the actor thread keeps running (it takes
   a queued closure and returns from the closure it runs), and a task whose waker
   was signalled, or that is in its first poll, is polled. Nothing forces a call to
   be made, a caller to be dropped, or the clock to be before the epoch. *)

Fairness ==
    /\ WF_vars(run_recv)
    /\ WF_vars(run_func)
    /\ \A c \in Callers : WF_vars(DatabaseCommandFuture_poll(c))

FairSpec == Init /\ [][Next]_vars /\ Fairness

\* the call that caller c awaits has been sent and c has not been handed its result
Awaiting(c) == pc[c] \in {"polling", "pending", "woken"}

\* C18: no wake-up is lost: a caller that waits with no result in its handle has
\* stored its waker there (so the resolve to come signals it), a caller whose handle
\* holds a result is in a poll or has been woken, and under fair scheduling a call
\* whose send succeeded returns its result, unless its caller is dropped or the
\* actor thread died.
C18_NoLostWakeup ==
    /\ [](\A c \in Callers :
            pc[c] = "pending" =>
                /\ fut[cur[c]].result = NoResult
                /\ fut[cur[c]].waker \/ fut[cur[c]].poisoned)
    /\ [](\A c \in Callers :
            (Awaiting(c) /\ fut[cur[c]].result # NoResult) => pc[c] \in {"polling", "woken"})
    /\ \A c \in Callers :
         Awaiting(c) ~> \/ pc[c] = "idle" /\ \E j \in Executed :
                                                 execLog[j].id = cur[c] /\ execLog[j].res = ret[c]
                        \/ pc[c] = "dropped"
                        \/ actor = "panicked"

\* the actor has resolved the handle of a caller that was suspended with its waker
\* stored: the result is in the handle and the caller is scheduled for its next poll
C18_Witness ==
    \E c \in Callers :
        /\ pc[c] = "woken"
        /\ fut[cur[c]].result # NoResult
        /\ fut[cur[c]].waker = FALSE
        /\ \E j \in Executed : execLog[j].id = cur[c]

---------------------------------------------------------------------------
(* The file stream under fair scheduling: the consumer polls whenever it may (at
   first, after an item, after Pending once woken) and a started open or read
   completes. *)

StreamFairness ==
    /\ WF_vars(poll_next)
    /\ WF_vars(OpenCompletes)
    /\ WF_vars(ReadCompletes)

StreamFairSpec == StreamInit /\ [][StreamNext]_vars /\ StreamFairness

\* C19: the stream never stalls: whenever the last poll returned Pending, the task
\* has been woken or an open or a read is running that will wake it; and under fair
\* scheduling a stream built on a path is polled to end-of-sequence or to an error
\* item (or to the bound on the number of polls).
C19_StreamNeverStalls ==
    /\ [](lastPoll = "Pending" =>
            woken \/ file_fut = "Running" \/ read_fut = "Running")
    /\ (stream = "from_path") ~> (lastPoll = "End" \/ HasErr \/ polls = MaxPolls)

\* the open has succeeded and the poll that saw it returned Pending after waking
\* its own task: the read future is created and not started yet
C19_Witness ==
    /\ stream = "from_path"
    /\ lastPoll = "Pending" /\ woken
    /\ file_fut = "None" /\ read_fut = "Created"

---------------------------------------------------------------------------
(* Claims about concurrently outstanding calls, checked under Spec *)

\* C20: each call gets the result of its own command: the result a caller holds for
\* a call that was sent is the result the actor logged for that very command, which
\* is what the store gave for the operation, code and values of that call; the step
\* that resolves a handle changes no other handle and resumes no caller but the one
\* that awaits that handle.
C20_OwnResult ==
    /\ [](\A c \in Callers :
            (pc[c] = "idle" /\ cur[c] # 0 /\ calls[cur[c]].sent) =>
                /\ calls[cur[c]].caller = c
                /\ \E j \in Executed : execLog[j].id = cur[c] /\ execLog[j].res = ret[c])
    /\ [][(actor = "exec" /\ Len(execLog') > Len(execLog)) =>
            /\ \E now \in Times :
                 execLog'[Len(execLog')].res = StoreCall(table, calls[actorCmd], now).res
            /\ fut'[actorCmd].result = execLog'[Len(execLog')].res
            /\ \A h \in 1..Len(fut) : h # actorCmd => fut'[h] = fut[h]
            /\ \A c \in Callers :
                 pc'[c] # pc[c] => (c = calls[actorCmd].caller /\ cur[c] = actorCmd)
            /\ ret' = ret]_vars
    /\ [][\A c \in Callers :
            (Awaiting(c) /\ pc'[c] = "idle") =>
                /\ ret'[c] = fut[cur[c]].result
                /\ \A h \in 1..Len(fut) : h # cur[c] => fut'[h] = fut[h]
                /\ \A d \in Callers \ {c} : ret'[d] = ret[d] /\ pc'[d] = pc[d]]_vars

\* both callers had a call outstanding together; the later call has returned its
\* own result, different from the result of the earlier call, whose caller still
\* waits with that result in its handle
C20_Witness ==
    \E c, d \in Callers :
        /\ c # d
        /\ cur[c] < cur[d]
        /\ pc[d] = "idle" /\ calls[cur[d]].sent
        /\ pc[c] = "woken"
        /\ fut[cur[c]].result # NoResult
        /\ ret[d] # fut[cur[c]].result
        /\ ret[d] # NoResult

====
